---------------------------- MODULE Spec2Model ----------------------------
(***************************************************************************)
(* A model of VideoSort.py, the NZBGet post-processing script that sorts   *)
(* downloaded movies and tv shows.                                         *)
(*                                                                         *)
(* Strings are sequences of one-character strings, so that the script's    *)
(* string processing (splitext, replace, strip, title, ...) is computed    *)
(* and not assumed.                                                        *)
(*                                                                         *)
(* Spec       : one run of the script's main part (file loop, rename,      *)
(*              satellites, cleanup, exit status).                         *)
(* SpecPath   : construct_path applied to one file name and one guess of   *)
(*              the classifier, under one configuration.                   *)
(* SpecTitles : get_titles applied to one name, under one configuration.   *)
(*                                                                         *)
(* Each specification leaves the variables of the others at rest.          *)
(***************************************************************************)
EXTENDS Integers, Sequences, FiniteSets, TLC

VARIABLES
    overwrite,          \* NZBPO_OVERWRITE == 'yes'
    cleanup,            \* NZBPO_CLEANUP == 'yes'
    preview,            \* NZBPO_PREVIEW == 'yes'
    walk,               \* the files os.walk(download_dir) yields, in order
    size,               \* os.path.getsize of each file of the walk
    idx,                \* position of the file loop in walk
    src,                \* files present in the download directory
    dst,                \* files present at the destination: [path, from]
    dst_dirs,           \* directories present at the destination
    tree_deleted,       \* the download directory has been removed
    moved_src_files,    \* list of moved files (source path)
    moved_dst_files,    \* list of moved files (destination path)
    dupe_separator,     \* global dupe_separator
    files_moved,        \* flag files_moved
    errors,             \* flag errors
    pc,                 \* "loop", "cleanup", "exit", "done"
    exit_code,          \* argument of sys.exit
    fault_count,        \* number of calls that have raised so far
    fs0,                \* history: the filesystem when the run started
    calls,              \* history: the calls of rename and what they did
    log,                \* history: what the loop did with each file
    lower_words,        \* NZBPO_LOWERWORDS, split at the commas
    upper_words,        \* NZBPO_UPPERWORDS, split at the commas
    movies_format,      \* NZBPO_MOVIESFORMAT
    series_format,      \* NZBPO_SERIESFORMAT
    dated_format,       \* NZBPO_DATEDFORMAT
    replace_order,      \* the order in which REPLACE_AFTER is iterated
    arg_filename,       \* construct_path: its argument
    arg_guess,          \* construct_path: what guessit returns for it
    ret_path,           \* construct_path: its locals and its result
    arg_name,           \* get_titles: argument name
    arg_titleing,       \* get_titles: argument titleing
    ret_titles          \* get_titles: its result

run_vars == <<overwrite, cleanup, preview, walk, size, idx, src, dst, dst_dirs,
              tree_deleted, moved_src_files, moved_dst_files, dupe_separator,
              files_moved, errors, pc, exit_code, fault_count, fs0, calls,
              log>>

config_vars == <<lower_words, upper_words, movies_format, series_format,
                 dated_format, replace_order>>

path_vars == <<arg_filename, arg_guess, ret_path>>

titles_vars == <<arg_name, arg_titleing, ret_titles>>

vars == <<run_vars, config_vars, path_vars, titles_vars>>

-----------------------------------------------------------------------------
(* Bounds of the model *)

\* at most this many files in the download directory
MaxFiles == 3

\* at most this many filesystem or classifier calls raise in a run
MaxFaults == 1

(* Program constants *)

POSTPROCESS_SUCCESS == 93
POSTPROCESS_NONE == 95
POSTPROCESS_ERROR == 94

\* min_size: sizes are counted in units such that the threshold is 1
min_size == 1

-----------------------------------------------------------------------------
(* Python's string functions, on sequences of characters *)

LowerLetters == <<"a","b","c","d","e","f","g","h","i","j","k","l","m",
                  "n","o","p","q","r","s","t","u","v","w","x","y","z">>
UpperLetters == <<"A","B","C","D","E","F","G","H","I","J","K","L","M",
                  "N","O","P","Q","R","S","T","U","V","W","X","Y","Z">>
Digits == <<"0","1","2","3","4","5","6","7","8","9">>

IsLower(c) == \E i \in 1..26 : LowerLetters[i] = c
IsUpper(c) == \E i \in 1..26 : UpperLetters[i] = c
IsLetter(c) == IsLower(c) \/ IsUpper(c)
IsDigit(c) == \E i \in 1..10 : Digits[i] = c
IsSpace(c) == c = " "

\* str.upper / str.lower of one character
UpperChar(c) == IF IsLower(c) THEN UpperLetters[CHOOSE i \in 1..26 : LowerLetters[i] = c] ELSE c
LowerChar(c) == IF IsUpper(c) THEN LowerLetters[CHOOSE i \in 1..26 : UpperLetters[i] = c] ELSE c

\* str.upper(), str.lower()
PyUpper(s) == [i \in 1..Len(s) |-> UpperChar(s[i])]
PyLower(s) == [i \in 1..Len(s) |-> LowerChar(s[i])]

\* s[a:b] with 1-based inclusive bounds
Slice(s, a, b) == IF a > b THEN <<>> ELSE SubSeq(s, a, b)

\* s.startswith(key, n), n counted from 1
StartsWith(s, key, n) ==
    /\ n + Len(key) - 1 <= Len(s)
    /\ \A i \in 1..Len(key) : s[n + i - 1] = key[i]

\* s.find(key) > -1
Contains(s, key) == \E n \in 1..(Len(s) + 1) : StartsWith(s, key, n)

\* x in list
InList(x, list) == \E i \in 1..Len(list) : list[i] = x

\* str(n) of a natural number
RECURSIVE PyStrNat(_)
PyStrNat(n) == IF n < 10 THEN <<Digits[n + 1]>>
               ELSE PyStrNat(n \div 10) \o <<Digits[(n % 10) + 1]>>

\* index of the last occurrence of c in s, 0 when there is none (s.rfind(c) + 1)
RFind(s, c) == IF \E i \in 1..Len(s) : s[i] = c
               THEN CHOOSE i \in 1..Len(s) : s[i] = c /\ \A j \in (i+1)..Len(s) : s[j] # c
               ELSE 0

\* os.path.splitext(p): the extension starts at the last dot of the last path
\* component, leading dots of the component not counted
SplitExt(p) ==
    LET sepIndex == RFind(p, "/")
        dotIndex == RFind(p, ".")
    IN  IF /\ dotIndex > sepIndex
           /\ \E k \in (sepIndex + 1)..(dotIndex - 1) : p[k] # "."
        THEN <<Slice(p, 1, dotIndex - 1), Slice(p, dotIndex, Len(p))>>
        ELSE <<p, <<>>>>

\* os.path.basename(p)
BaseName(p) == Slice(p, RFind(p, "/") + 1, Len(p))

\* s.rstrip('/') for the head of os.path.dirname
RECURSIVE RStripChar(_, _)
RStripChar(s, c) == IF Len(s) > 0 /\ s[Len(s)] = c
                    THEN RStripChar(Slice(s, 1, Len(s) - 1), c) ELSE s

\* os.path.dirname(p)
DirName(p) ==
    LET head == Slice(p, 1, RFind(p, "/"))
    IN  IF head # <<>> /\ \E i \in 1..Len(head) : head[i] # "/"
        THEN RStripChar(head, "/") ELSE head


-----------------------------------------------------------------------------
(* Configuration and environment of a run *)

\* video_extensions and satellite_extensions (NZBPO_VIDEOEXTENSIONS=.mkv,
\* NZBPO_SATELLITEEXTENSIONS=.srt)
video_extensions == {<<".","m","k","v">>}
satellite_extensions == {<<".","s","r","t">>}

\* satellites = len(satellite_extensions) > 0
satellites == Cardinality(satellite_extensions) > 0

\* The file names a download directory may hold, in the order os.walk lists
\* them: a.mkv, A.mkv, b.mkv, a.srt (one directory, no subdirectories)
Names == << <<"a",".","m","k","v">>, <<"A",".","m","k","v">>,
            <<"b",".","m","k","v">>, <<"a",".","s","r","t">> >>

\* The formats construct_path may pick for a file: "%t (%y)", "%.t (%y)"
\* (which one depends on the guess's type and the configuration)
FormatSpaced == <<"%","t"," ","(","%","y",")">>
FormatDotted == <<"%",".","t"," ","(","%","y",")">>
RunFormats == {FormatSpaced, FormatDotted}

\* The destination paths construct_path may return: "m/A.mkv", "m/A (2).mkv"
PathA == <<"m","/","A",".","m","k","v">>
PathA2 == <<"m","/","A"," ","(","2",")",".","m","k","v">>

\* Files that may be at the destination before the run
PreExisting == {PathA}

\* What the classifier and construct_path make of a video file: no type
\* (construct_path returns None), or a format and the path built from it
NoGuess == [known |-> FALSE, format |-> <<>>, path |-> <<>>]
Guesses == {NoGuess}
           \cup [known : {TRUE}, format : RunFormats, path : {PathA}]
           \cup [known : {TRUE}, format : {FormatSpaced}, path : {PathA2}]

\* The call that raises while a file is processed ("none": no call does)
Faults == {"none", "getsize", "guessit", "remove", "move", "sat_move"}

\* the guesses and faults that make a difference for a file: a file that is
\* no video is neither sized nor classified
GuessesFor(filename) ==
    IF SplitExt(filename)[2] \in video_extensions THEN Guesses ELSE {NoGuess}
FaultsFor(filename, guess) ==
    IF fault_count >= MaxFaults THEN {"none"}
    ELSE IF SplitExt(filename)[2] \notin video_extensions THEN {"none"}
    ELSE IF ~guess.known THEN {"none", "getsize", "guessit"}
    ELSE Faults

\* the files selected by the index set S, in the order of Names
RECURSIVE Listing(_, _)
Listing(S, i) ==
    IF i > Len(Names) THEN <<>>
    ELSE (IF i \in S THEN <<Names[i]>> ELSE <<>>) \o Listing(S, i + 1)

Range(s) == {s[i] : i \in 1..Len(s)}

-----------------------------------------------------------------------------
(* The script's global state as a record, threaded through its functions:  *)
(* the filesystem (src, dst, dst_dirs), the moved lists, dupe_separator,   *)
(* whether an exception is propagating (raised) and the last return value  *)

Globals == [src |-> src, dst |-> dst, dst_dirs |-> dst_dirs,
            moved_src_files |-> moved_src_files,
            moved_dst_files |-> moved_dst_files,
            dupe_separator |-> dupe_separator,
            tree_deleted |-> tree_deleted, calls |-> calls,
            raised |-> FALSE, ret |-> <<>>]

Raise(g) == [g EXCEPT !.raised = TRUE]

\* os.path.exists(p) for a destination path
exists(g, p) == \E f \in g.dst : f.path = p

\* os.remove(p)
os_remove(g, p, fails) ==
    IF fails \/ ~exists(g, p) THEN Raise(g)
    ELSE [g EXCEPT !.dst = {f \in g.dst : f.path # p}]

\* os.makedirs(d)
os_makedirs(g, d, fails) ==
    IF fails THEN Raise(g)
    ELSE [g EXCEPT !.dst_dirs = g.dst_dirs \cup {d}]

\* shutil.move(old, new): old leaves the download directory and replaces
\* whatever is at new
shutil_move(g, old, new, fails) ==
    IF fails \/ old \notin g.src \/ DirName(new) \notin g.dst_dirs THEN Raise(g)
    ELSE [g EXCEPT !.src = g.src \ {old},
                   !.dst = {f \in g.dst : f.path # new}
                           \cup {[path |-> new, from |-> old]}]

\* guess_dupe_separator(format)
guess_dupe_separator(format) ==
    LET format_fname == BaseName(format)
    IN  IF \E x \in { <<"%",".","t">>, <<"%","s",".","n">>, <<"%","s",".","N">> } :
               Contains(format_fname, x)
        THEN "."
        ELSE IF \E x \in { <<"%","_","t">>, <<"%","s","_","n">>, <<"%","s","_","N">> } :
               Contains(format_fname, x)
        THEN "_"
        ELSE " "

\* fname + dupe_separator + '(' + str(suffix_num) + ')' + fext
SuffixedName(new, sep, suffix_num) ==
    SplitExt(new)[1] \o <<sep>> \o <<"(">> \o PyStrNat(suffix_num) \o <<")">>
        \o SplitExt(new)[2]

\* (mutant) the test without the in-run destinations
name_is_free_on_disk(g, new_name) == ~exists(g, new_name)

\* the test that ends the loop of unique_name
name_is_free(g, new_name) ==
    ~exists(g, new_name) /\ ~InList(new_name, g.moved_dst_files)

\* unique_name(new): the first suffix_num from 2 up whose name is free
unique_name(g, new) ==
    LET limit == 2 + Cardinality(g.dst) + Len(g.moved_dst_files)
        suffix_num == CHOOSE n \in 2..limit :
            /\ name_is_free(g, SuffixedName(new, g.dupe_separator, n))
            /\ \A m \in 2..(n - 1) :
                   ~name_is_free(g, SuffixedName(new, g.dupe_separator, m))
    IN  SuffixedName(new, g.dupe_separator, suffix_num)

\* moved_src_files.append(old); moved_dst_files.append(new); return new
record_move(g, old, new) ==
    [g EXCEPT !.moved_src_files = Append(g.moved_src_files, old),
              !.moved_dst_files = Append(g.moved_dst_files, new),
              !.ret = new]

\* (mutant) overwriting whatever is in the way
overwrite_always(g, new) == overwrite

\* the condition of rename's overwrite branch
overwrite_existing(g, new) == overwrite /\ ~InList(new, g.moved_dst_files)

\* (mutant) the appends made though the move has raised
recorded_despite_raise(g, old, new) == record_move(g, old, new)

\* the rest of a statement sequence after a call that may have raised
recorded(g, old, new) == IF g.raised THEN g ELSE record_move(g, old, new)
moved_unless_raised(g, old, new, fails) ==
    IF g.raised THEN g ELSE shutil_move(g, old, new, fails)

RECURSIVE rename(_, _, _, _)

\* rename: new = unique_name(new); rename(old, new), then the appends with
\* the new name
rename_suffixed(g, old, new2, fault) ==
    recorded(rename(g, old, new2, fault), old, new2)

\* rename: os.remove(new); shutil.move(old, new), then the appends
rename_overwrite(g, old, new, fault) ==
    recorded(moved_unless_raised(os_remove(g, new, fault = "remove"),
                                 old, new, fault = "move"),
             old, new)

\* rename: the move to a free path, skipped in preview mode, then the appends
rename_free(g, old, new, fault) ==
    IF preview THEN record_move(g, old, new)
    ELSE recorded(moved_unless_raised(
                      IF DirName(new) \notin g.dst_dirs
                      THEN os_makedirs(g, DirName(new), fault = "makedirs")
                      ELSE g,
                      old, new, fault = "move"),
                  old, new)

\* rename(old, new); fault names the filesystem call that raises, if any
rename(g, old, new, fault) ==
    IF exists(g, new) \/ InList(new, g.moved_dst_files)
    THEN IF overwrite_existing(g, new)
         THEN rename_overwrite(g, old, new, fault)
         ELSE rename_suffixed(g, old, unique_name(g, new), fault)
    ELSE rename_free(g, old, new, fault)

\* the history's note of a call of rename: what was asked, whether new was on
\* disk or a recorded destination, which destination files the call deleted or
\* replaced, which it put there, and what it returned
noted_call(g, r, old, new) ==
    [r EXCEPT !.calls = Append(g.calls,
        [old |-> old, new |-> new,
         on_disk |-> exists(g, new),
         in_run |-> InList(new, g.moved_dst_files),
         deleted |-> {f \in g.dst : f \notin r.dst},
         placed |-> {f \in r.dst : f \notin g.dst},
         raised |-> r.raised,
         ret |-> IF r.raised THEN <<>> ELSE r.ret])]

\* a call of rename from the file loop or from move_satellites
call_rename(g, old, new, fault) ==
    noted_call(g, rename(g, old, new, fault), old, new)

\* the test of move_satellites for one file of the directory
is_satellite(filename, videofile) ==
    LET fbase == SplitExt(filename)[1]
        fext == SplitExt(filename)[2]
        base == BaseName(SplitExt(videofile)[1])
    IN  fext \in satellite_extensions /\ PyLower(fbase) = PyLower(base)

\* the loop of move_satellites over os.listdir(root)
RECURSIVE move_satellites_loop(_, _, _, _, _)
move_satellites_loop(g, listing, videofile, dest, fault) ==
    IF listing = <<>> \/ g.raised THEN g
    ELSE move_satellites_loop(
             IF is_satellite(Head(listing), videofile)
             THEN call_rename(g, Head(listing),
                              SplitExt(dest)[1] \o SplitExt(Head(listing))[2],
                              fault)
             ELSE g,
             Tail(listing), videofile, dest, fault)

\* move_satellites(videofile, dest)
move_satellites(g, videofile, dest, fault) ==
    move_satellites_loop(g, SelectSeq(walk, LAMBDA f : f \in g.src),
                         videofile, dest, fault)


\* p is new, or new with a '<separator>(<digits>)' suffix before the extension
IsVariantOf(p, new) ==
    LET pf == SplitExt(p)[1]
        nf == SplitExt(new)[1]
        k == Len(nf)
    IN  \/ p = new
        \/ /\ SplitExt(p)[2] = SplitExt(new)[2]
           /\ Len(pf) >= k + 4
           /\ StartsWith(pf, nf, 1)
           /\ pf[k + 1] \in {" ", ".", "_"}
           /\ pf[k + 2] = "("
           /\ pf[Len(pf)] = ")"
           /\ \A i \in (k + 3)..(Len(pf) - 1) : IsDigit(pf[i])

\* neither new nor one of its suffixed variants is on disk or a recorded
\* destination
family_free(files, list, new) ==
    /\ \A f \in files : ~IsVariantOf(f.path, new)
    /\ \A i \in 1..Len(list) : ~IsVariantOf(list[i], new)

\* what the loop notes of a file: what happened, and for a file that rename
\* returned for, the path asked for, the separator and the path returned
LogEntry(file, what, g, guess, final) ==
    [file |-> file, what |-> what, renamed |-> guess.known,
     desired |-> guess.path, sep |-> g.dupe_separator, final |-> final,
     free |-> guess.known /\ family_free(dst, moved_dst_files, guess.path)]

\* what the loop body leaves: the globals, whether files_moved was set, and
\* the history's entry
outcome(g, old_filename, what, moved, guess, final) ==
    [g |-> g, moved |-> moved,
     entry |-> LogEntry(old_filename, what, g, guess, final)]

\* the loop body after move_satellites
after_satellites(gs, old_filename, guess, new_path) ==
    outcome(gs, old_filename, IF gs.raised THEN "error" ELSE "moved", TRUE,
            guess, new_path)

\* the loop body after rename: files_moved = True, then the satellites
after_rename(gr, old_filename, guess, fault) ==
    IF gr.raised
    THEN outcome(gr, old_filename, "error", FALSE, NoGuess, <<>>)
    ELSE after_satellites(
             IF satellites
             THEN move_satellites(gr, old_filename, gr.ret,
                                  IF fault = "sat_move" THEN "move" ELSE "none")
             ELSE gr,
             old_filename, guess, gr.ret)

\* the body of the file loop for old_filename, up to the except clause
process_file(g, old_filename, guess, fault) ==
    IF SplitExt(old_filename)[2] \notin video_extensions
    THEN outcome(g, old_filename, "skip_ext", FALSE, NoGuess, <<>>)
    ELSE IF fault = "getsize" \/ old_filename \notin g.src
    THEN outcome(Raise(g), old_filename, "error", FALSE, NoGuess, <<>>)
    ELSE IF size[old_filename] < min_size
    THEN outcome(g, old_filename, "skip_size", FALSE, NoGuess, <<>>)
    ELSE IF fault = "guessit"
    THEN outcome(Raise(g), old_filename, "error", FALSE, NoGuess, <<>>)
    ELSE IF ~guess.known
    THEN outcome(g, old_filename, "unknown", FALSE, NoGuess, <<>>)
    ELSE after_rename(
             call_rename(
                 [g EXCEPT !.dupe_separator = guess_dupe_separator(guess.format)],
                 old_filename, guess.path, fault),
             old_filename, guess, fault)

\* (mutant) an exception ends the loop
next_file_abort(i, raised) == IF raised THEN Len(walk) + 1 ELSE i + 1

\* where the loop goes after a file (the except clause is inside the loop)
next_file(i, raised) == i + 1

\* the condition under which cleanup_download_dir is called
cleanup_gate == cleanup /\ files_moved /\ ~errors

\* (mutant) only files above min_size count as big
large_files_remaining_above(g) ==
    \E path \in g.src :
        /\ size[path] > min_size
        /\ (~preview \/ ~InList(path, g.moved_src_files))

\* the first loop of cleanup_download_dir: a big file remains
large_files_remaining(g) ==
    \E path \in g.src :
        /\ size[path] >= min_size
        /\ (~preview \/ ~InList(path, g.moved_src_files))

\* cleanup_download_dir()
cleanup_download_dir(g) ==
    IF large_files_remaining(g) THEN g
    ELSE IF preview THEN g
    ELSE [g EXCEPT !.src = {}, !.tree_deleted = TRUE]

\* (mutant) success is tested before the errors
exit_status_moved_first(err, moved) ==
    IF moved THEN POSTPROCESS_SUCCESS
    ELSE IF err THEN POSTPROCESS_ERROR
    ELSE POSTPROCESS_NONE

\* the status returned to NZBGet
exit_status(err, moved) ==
    IF err THEN POSTPROCESS_ERROR
    ELSE IF moved THEN POSTPROCESS_SUCCESS
    ELSE POSTPROCESS_NONE

-----------------------------------------------------------------------------
(* The variables a specification does not use stay at these values *)

NotCalled == [status |-> "pending"]

RunAtRest ==
    /\ overwrite = FALSE /\ cleanup = FALSE /\ preview = FALSE
    /\ walk = <<>> /\ size = <<>> /\ idx = 1
    /\ src = {} /\ dst = {} /\ dst_dirs = {}
    /\ tree_deleted = FALSE
    /\ moved_src_files = <<>> /\ moved_dst_files = <<>>
    /\ dupe_separator = " "
    /\ files_moved = FALSE /\ errors = FALSE
    /\ pc = "loop" /\ exit_code = 0 /\ fault_count = 0
    /\ fs0 = [src |-> {}, dst |-> {}, dst_dirs |-> {}]
    /\ calls = <<>> /\ log = <<>>

ConfigAtRest ==
    /\ lower_words = <<>> /\ upper_words = <<>>
    /\ movies_format = <<>> /\ series_format = <<>> /\ dated_format = <<>>
    /\ replace_order = <<>>

PathAtRest ==
    /\ arg_filename = <<>> /\ arg_guess = <<>> /\ ret_path = NotCalled

TitlesAtRest ==
    /\ arg_name = <<>> /\ arg_titleing = FALSE /\ ret_titles = NotCalled

-----------------------------------------------------------------------------
(* The run *)

Init ==
    /\ overwrite \in BOOLEAN
    /\ cleanup \in BOOLEAN
    /\ preview \in BOOLEAN
    /\ \E S \in SUBSET (1..Len(Names)) :
           /\ Cardinality(S) <= MaxFiles
           /\ walk = Listing(S, 1)
    /\ size \in [Range(walk) -> {min_size - 1, min_size}]
    /\ idx = 1
    /\ src = Range(walk)
    /\ \E pre \in SUBSET PreExisting :
           dst = {[path |-> p, from |-> <<>>] : p \in pre}
    /\ dst_dirs = {DirName(f.path) : f \in dst}
    /\ tree_deleted = FALSE
    /\ moved_src_files = <<>>
    /\ moved_dst_files = <<>>
    /\ dupe_separator = " "
    /\ files_moved = FALSE
    /\ errors = FALSE
    /\ pc = "loop"
    /\ exit_code = 0
    /\ fault_count = 0
    /\ fs0 = [src |-> src, dst |-> dst, dst_dirs |-> dst_dirs]
    /\ calls = <<>>
    /\ log = <<>>
    /\ ConfigAtRest
    /\ PathAtRest
    /\ TitlesAtRest

SetGlobals(g) ==
    /\ src' = g.src
    /\ dst' = g.dst
    /\ dst_dirs' = g.dst_dirs
    /\ tree_deleted' = g.tree_deleted
    /\ moved_src_files' = g.moved_src_files
    /\ moved_dst_files' = g.moved_dst_files
    /\ dupe_separator' = g.dupe_separator
    /\ calls' = g.calls

\* the end of an iteration: the flags, the except clause, the next file
AfterFile(r) ==
    /\ SetGlobals(r.g)
    /\ files_moved' = (files_moved \/ r.moved)
    /\ errors' = (errors \/ r.g.raised)
    /\ fault_count' = fault_count + (IF r.g.raised THEN 1 ELSE 0)
    /\ idx' = next_file(idx, r.g.raised)
    /\ log' = Append(log, r.entry)

\* one iteration of the file loop
ProcessFile ==
    /\ pc = "loop"
    /\ idx <= Len(walk)
    /\ \E guess \in GuessesFor(walk[idx]) :
       \E fault \in FaultsFor(walk[idx], guess) :
           AfterFile(process_file(Globals, walk[idx], guess, fault))
    /\ UNCHANGED <<overwrite, cleanup, preview, walk, size, pc, exit_code, fs0>>
    /\ UNCHANGED <<config_vars, path_vars, titles_vars>>

\* after the loop: the cleanup
Cleanup ==
    /\ pc = "loop"
    /\ idx > Len(walk)
    /\ SetGlobals(IF cleanup_gate THEN cleanup_download_dir(Globals)
                  ELSE Globals)
    /\ pc' = "exit"
    /\ UNCHANGED <<overwrite, cleanup, preview, walk, size, idx, files_moved,
                   errors, exit_code, fault_count, fs0, log>>
    /\ UNCHANGED <<config_vars, path_vars, titles_vars>>

\* returning the status to NZBGet
Exit ==
    /\ pc = "exit"
    /\ exit_code' = exit_status(errors, files_moved)
    /\ pc' = "done"
    /\ UNCHANGED <<overwrite, cleanup, preview, walk, size, idx, src, dst,
                   dst_dirs, tree_deleted, moved_src_files, moved_dst_files,
                   dupe_separator, calls, files_moved, errors, fault_count,
                   fs0, log>>
    /\ UNCHANGED <<config_vars, path_vars, titles_vars>>

Next == ProcessFile \/ Cleanup \/ Exit

Spec == Init /\ [][Next]_vars


-----------------------------------------------------------------------------
(* Claims about the run *)

\* the files rename returned a path for, in the order of processing
Renamed == SelectSeq(log, LAMBDA e : e.renamed)

SamePath(i, j) == \A k \in i..j : Renamed[k].desired = Renamed[i].desired
SameSeparator(i, j) == \A k \in i..j : Renamed[k].sep = Renamed[i].sep

\* the path the k-th file of a block asking for the same path is to get
ExpectedName(e, desired, k) ==
    IF k = 1 THEN desired ELSE SuffixedName(desired, e.sep, k)

C2_PreviewChangesNothing ==
    preview =>
        /\ src = fs0.src
        /\ dst = fs0.dst
        /\ dst_dirs = fs0.dst_dirs
        /\ ~tree_deleted
        /\ \A i \in 1..Len(calls) :
               ~calls[i].raised =>
                   \E k \in 1..Len(moved_dst_files) :
                       /\ moved_src_files[k] = calls[i].old
                       /\ moved_dst_files[k] = calls[i].ret

C4_CleanupExactlyWhenSafe ==
    [][ ~preview =>
          /\ (pc = "loop" /\ pc' = "exit") =>
                /\ tree_deleted' <=>
                       ( /\ cleanup
                         /\ files_moved
                         /\ ~errors
                         /\ \A f \in src : size[f] < min_size )
                /\ (tree_deleted' => src' = {})
                /\ (~tree_deleted' => src' = src)
          /\ (pc' = "loop" => ~tree_deleted') ]_vars

\* the directory was deleted with a small file left in it
C4_Witness ==
    /\ ~preview
    /\ tree_deleted
    /\ \E f \in Range(walk) : ~InList(f, moved_src_files)

\* C5: the status returned is POSTPROCESS_ERROR if an error occurred, however
\* many files were moved, POSTPROCESS_SUCCESS if a file was moved and no error
\* occurred, POSTPROCESS_NONE otherwise.
C5_ExitStatus ==
    pc = "done" =>
        /\ errors => exit_code = 94
        /\ (~errors /\ files_moved) => exit_code = 93
        /\ (~errors /\ ~files_moved) => exit_code = 95
        /\ exit_code \in {93, 94, 95}

\* a run with a moved file and an error has ended
C5_Witness ==
    /\ pc = "done"
    /\ errors
    /\ files_moved
    /\ exit_code = 94

\* C6: an exception while a file is processed sets errors and the loop goes
\* on: when the loop has ended every file of the walk has been handled, and
\* errors is set if and only if some file raised.
C6_ErrorsDoNotStopTheBatch ==
    /\ errors <=> \E i \in 1..Len(log) : log[i].what = "error"
    /\ Len(log) = idx - 1
    /\ pc # "loop" => Len(log) = Len(walk)
    /\ \A i \in 1..Len(log) : log[i].file = walk[i]

\* a file was moved after another file had raised
C6_Witness ==
    /\ pc = "done"
    /\ errors
    /\ \E i \in 1..Len(log) : \E j \in (i + 1)..Len(log) :
           /\ log[i].what = "error"
           /\ log[j].what = "moved"

-----------------------------------------------------------------------------
(* More of Python's string functions *)

\* s.replace(old, new) for a non-empty old: the occurrences from left to
\* right, not overlapping
RECURSIVE ReplaceFrom(_, _, _, _)
ReplaceFrom(s, old, new, n) ==
    IF n > Len(s) THEN <<>>
    ELSE IF StartsWith(s, old, n)
         THEN new \o ReplaceFrom(s, old, new, n + Len(old))
         ELSE <<s[n]>> \o ReplaceFrom(s, old, new, n + 1)

\* s.replace('', new): new before every character and at the end
RECURSIVE Interleave(_, _, _)
Interleave(s, new, n) ==
    IF n > Len(s) THEN new
    ELSE new \o <<s[n]>> \o Interleave(s, new, n + 1)

\* s.replace(old, new)
Replace(s, old, new) ==
    IF old = <<>> THEN Interleave(s, new, 1) ELSE ReplaceFrom(s, old, new, 1)

\* s.lstrip(chars), s.rstrip(chars), s.strip(chars)
RECURSIVE LStrip(_, _)
LStrip(s, chars) ==
    IF Len(s) > 0 /\ s[1] \in chars THEN LStrip(Tail(s), chars) ELSE s
RECURSIVE RStrip(_, _)
RStrip(s, chars) ==
    IF Len(s) > 0 /\ s[Len(s)] \in chars
    THEN RStrip(Slice(s, 1, Len(s) - 1), chars) ELSE s
Strip(s, chars) == RStrip(LStrip(s, chars), chars)

\* s.strip(): the whitespace of the model's alphabet is the space
PyStrip(s) == Strip(s, {" "})

\* s.title(): a letter is uppercased after a character that is no letter and
\* lowercased after a letter
PyTitle(s) ==
    [i \in 1..Len(s) |->
        IF IsLetter(s[i])
        THEN IF i > 1 /\ IsLetter(s[i - 1]) THEN LowerChar(s[i])
             ELSE UpperChar(s[i])
        ELSE s[i]]

\* s.rjust(width, fillchar)
RECURSIVE RJust(_, _, _)
RJust(s, width, fillchar) ==
    IF Len(s) >= width THEN s ELSE RJust(<<fillchar>> \o s, width, fillchar)

\* s.split(sep) for a one-character sep
RECURSIVE Split(_, _)
Split(s, sep) ==
    IF \E i \in 1..Len(s) : s[i] = sep
    THEN <<Slice(s, 1, (CHOOSE i \in 1..Len(s) :
                   s[i] = sep /\ \A j \in 1..(i - 1) : s[j] # sep) - 1)>>
         \o Split(Slice(s, (CHOOSE i \in 1..Len(s) :
                   s[i] = sep /\ \A j \in 1..(i - 1) : s[j] # sep) + 1,
                   Len(s)), sep)
    ELSE <<s>>

\* sep.join(list)
RECURSIVE Join(_, _)
Join(list, sep) ==
    IF Len(list) = 0 THEN <<>>
    ELSE IF Len(list) = 1 THEN list[1]
    ELSE list[1] \o sep \o Join(Tail(list), sep)

\* the regex class \w, and its complement \W
IsWordChar(c) == IsLetter(c) \/ IsDigit(c) \/ c = "_"

\* key occurs in s at n, letter case ignored (re.I)
StartsWithNoCase(s, key, n) ==
    /\ n + Len(key) - 1 <= Len(s)
    /\ \A i \in 1..Len(key) : LowerChar(s[n + i - 1]) = LowerChar(key[i])

-----------------------------------------------------------------------------
(* Titles *)

\* titler(p): title() by way of a decode and an encode
titler(p) == PyTitle(p)

\* the regex r'\W(one)(\W|$)' with re.I matches input at n; one is a word
\* of letters
regex_matches_at(input, one, n) ==
    /\ n <= Len(input)
    /\ ~IsWordChar(input[n])
    /\ StartsWithNoCase(input, one, n + 1)
    /\ \/ n + Len(one) + 1 > Len(input)
       \/ ~IsWordChar(input[n + Len(one) + 1])

\* len(regex.findall(input)) for the search from n on: the matches do not
\* overlap, each takes the \W before the word and the one after it
RECURSIVE findall_count(_, _, _)
findall_count(input, one, n) ==
    IF \E i \in n..Len(input) : regex_matches_at(input, one, i)
    THEN 1 + findall_count(input, one,
                 (CHOOSE i \in n..Len(input) :
                     /\ regex_matches_at(input, one, i)
                     /\ \A j \in n..(i - 1) : ~regex_matches_at(input, one, j))
                 + Len(one) + 2)
    ELSE 0

\* for m in matches: input = input.replace(one, two)
RECURSIVE replace_for_matches(_, _, _, _)
replace_for_matches(input, one, two, matches) ==
    IF matches = 0 THEN input
    ELSE replace_for_matches(Replace(input, one, two), one, two, matches - 1)

\* replace_word(input, one, two)
replace_word(input, one, two) ==
    replace_for_matches(input, one, two, findall_count(input, one, 1))

\* for x in words: title = replace_word(title, titler(x), x)
RECURSIVE keep_words(_, _, _)
keep_words(title, words, i) ==
    IF i > Len(words) THEN title
    ELSE keep_words(replace_word(title, titler(words[i]), words[i]),
                    words, i + 1)

\* title = titler(title[0]) + title[1:], for a title that is not empty
first_letter_uppercase(title) ==
    IF title # <<>> THEN titler(<<title[1]>>) \o Tail(title) ELSE title

\* get_titles, first part: the name cleaned up
clean_title(name) ==
    Strip(PyStrip(Strip(Strip(Strip(PyStrip(
        Replace(Replace(name, <<".">>, <<" ">>), <<"_">>, <<" ">>)),
        {"("}), {"_"}), {"-"})), {"_"})

\* get_titles, the part under "if titleing"
titled(title) ==
    first_letter_uppercase(
        keep_words(
            keep_words(Replace(titler(title), <<"'","S">>, <<"'","s">>), lower_words, 1),
            upper_words, 1))

\* The title with spaces replaced by dots
dots_of(title) ==
    RStrip(Replace(Replace(Replace(Replace(Replace(Replace(title,
        <<" ","-"," ">>, <<"-">>), <<" ">>, <<".">>), <<"_">>, <<".">>), <<"(">>, <<".">>), <<")">>, <<".">>),
        <<".",".">>, <<".">>), {"."})

\* The title with spaces replaced by underscores
underscores_of(title) ==
    RStrip(Replace(Replace(Replace(title,
        <<" ">>, <<"_">>), <<".">>, <<"_">>), <<"_","_">>, <<"_">>), {"_"})

\* return title, dots, underscores
titles_of(title) == <<title, dots_of(title), underscores_of(title)>>

\* get_titles(name, titleing)
get_titles(name, titleing) ==
    titles_of(IF titleing THEN titled(clean_title(name))
              ELSE clean_title(name))

-----------------------------------------------------------------------------
(* Paths *)

STRIP_AFTER == <<"_", ".", "-">>

\* REPLACE_AFTER as it is written: the pairs of the dict display
REPLACE_AFTER == << <<<<"(",")">>, <<>>>>, <<<<".",".">>, <<".">>>>, <<<<"_","_">>, <<"_">>>>,
                    <<<<" "," ">>, <<" ">>>>, <<<<"/","/">>, <<"/">>>>,
                    <<<<" ","-"," ","-"," ">>, <<" ","-"," ">>>>, <<<<"_","_">>, <<"_">>>> >>

\* REPLACE_AFTER.iteritems(): the order is the interpreter's. A dict that
\* keeps the order of insertion yields the keys as written, the second '__'
\* dropped; CPython 2.7 yields them by the slots their hashes fall into.
InsertionOrder == << REPLACE_AFTER[1], REPLACE_AFTER[2], REPLACE_AFTER[3],
                     REPLACE_AFTER[4], REPLACE_AFTER[5], REPLACE_AFTER[6] >>
HashOrder == << REPLACE_AFTER[3], REPLACE_AFTER[5], REPLACE_AFTER[4],
                REPLACE_AFTER[2], REPLACE_AFTER[6], REPLACE_AFTER[1] >>
ReplaceOrders == {InsertionOrder, HashOrder}

\* the index of the first entry of mapping whose key is in path at n, 0 when
\* there is none
first_key(path, mapping, n) ==
    IF \E k \in 1..Len(mapping) : StartsWith(path, mapping[k][1], n)
    THEN CHOOSE k \in 1..Len(mapping) :
            /\ StartsWith(path, mapping[k][1], n)
            /\ \A j \in 1..(k - 1) : ~StartsWith(path, mapping[j][1], n)
    ELSE 0

\* path_subst(path, mapping), from position n on
RECURSIVE path_subst_from(_, _, _)
path_subst_from(path, mapping, n) ==
    IF n > Len(path) THEN <<>>
    ELSE IF path[n] = "%" /\ first_key(path, mapping, n) > 0
         THEN mapping[first_key(path, mapping, n)][2]
              \o path_subst_from(path, mapping,
                     n + Len(mapping[first_key(path, mapping, n)][1]))
         ELSE <<path[n]>> \o path_subst_from(path, mapping, n + 1)

path_subst(path, mapping) == path_subst_from(path, mapping, 1)

\* get_decades(year): decade, decade2
get_decades(year) ==
    IF year # <<>>
    THEN << Slice(year, 3, IF Len(year) < 3 THEN Len(year) ELSE 3) \o <<"0">>,
            Slice(year, 1, IF Len(year) < 3 THEN Len(year) ELSE 3) \o <<"0">> >>
    ELSE << <<>>, <<>> >>

\* re.search of  open ([^{]*) close  in path: where the leftmost match starts
\* (0: no match) and, the group being greedy, where its close starts
closes_at(path, open, close, i, j) ==
    /\ j >= i + Len(open)
    /\ StartsWith(path, close, j)
    /\ \A k \in (i + Len(open))..(j - 1) : path[k] # "{"
opens_at(path, open, close, i) ==
    /\ StartsWith(path, open, i)
    /\ \E j \in i..(Len(path) + 1) : closes_at(path, open, close, i, j)
search_start(path, open, close) ==
    IF \E i \in 1..Len(path) : opens_at(path, open, close, i)
    THEN CHOOSE i \in 1..Len(path) :
            /\ opens_at(path, open, close, i)
            /\ \A h \in 1..(i - 1) : ~opens_at(path, open, close, h)
    ELSE 0
search_close(path, open, close, i) ==
    CHOOSE j \in i..(Len(path) + 1) :
        /\ closes_at(path, open, close, i, j)
        /\ \A k \in (j + 1)..(Len(path) + 1) :
               ~closes_at(path, open, close, i, k)

\* path[:m.start()] + m.group(1).upper() + path[m.end():]
upper_group(path, i, j) ==
    Slice(path, 1, i - 1) \o PyUpper(Slice(path, i + 2, j - 1))
        \o Slice(path, j + 2, Len(path))

\* path[:m.start()] + m.group(1).lower() + path[m.end():]
lower_group(path, i, j) ==
    Slice(path, 1, i - 1) \o PyLower(Slice(path, i + 1, j - 1))
        \o Slice(path, j + 1, Len(path))

\* to_uppercase(path)
RECURSIVE to_uppercase(_)
to_uppercase(path) ==
    IF search_start(path, <<"{","{">>, <<"}","}">>) = 0 THEN path
    ELSE to_uppercase(upper_group(path, search_start(path, <<"{","{">>, <<"}","}">>),
             search_close(path, <<"{","{">>, <<"}","}">>,
                          search_start(path, <<"{","{">>, <<"}","}">>))))

\* to_lowercase(path): its loop
RECURSIVE lowercase_groups(_)
lowercase_groups(path) ==
    IF search_start(path, <<"{">>, <<"}">>) = 0 THEN path
    ELSE lowercase_groups(lower_group(path, search_start(path, <<"{">>, <<"}">>),
             search_close(path, <<"{">>, <<"}">>,
                          search_start(path, <<"{">>, <<"}">>))))

\* to_lowercase(path)
to_lowercase(path) ==
    Replace(Replace(lowercase_groups(path), <<"{">>, <<>>), <<"}">>, <<>>)

\* os.path.normpath(path): the components that remain
RECURSIVE norm_comps(_, _, _, _)
norm_comps(comps, i, new_comps, initial_slashes) ==
    IF i > Len(comps) THEN new_comps
    ELSE IF comps[i] = <<>> \/ comps[i] = <<".">>
    THEN norm_comps(comps, i + 1, new_comps, initial_slashes)
    ELSE IF \/ comps[i] # <<".",".">>
            \/ (initial_slashes = 0 /\ new_comps = <<>>)
            \/ (new_comps # <<>> /\ new_comps[Len(new_comps)] = <<".",".">>)
    THEN norm_comps(comps, i + 1, Append(new_comps, comps[i]), initial_slashes)
    ELSE IF new_comps # <<>>
    THEN norm_comps(comps, i + 1, SubSeq(new_comps, 1, Len(new_comps) - 1),
                    initial_slashes)
    ELSE norm_comps(comps, i + 1, new_comps, initial_slashes)

initial_slashes_of(path) ==
    IF ~StartsWith(path, <<"/">>, 1) THEN 0
    ELSE IF StartsWith(path, <<"/","/">>, 1) /\ ~StartsWith(path, <<"/","/","/">>, 1) THEN 2
    ELSE 1

or_dot(path) == IF path = <<>> THEN <<".">> ELSE path

\* os.path.normpath(path)
normpath(path) ==
    IF path = <<>> THEN <<".">>
    ELSE or_dot(Slice(<<"/","/">>, 1, initial_slashes_of(path))
                \o Join(norm_comps(Split(path, "/"), 1, <<>>,
                                   initial_slashes_of(path)), <<"/">>))

\* os.path.join(a, p)
path_join(a, p) ==
    IF StartsWith(p, <<"/">>, 1) THEN p
    ELSE IF a = <<>> \/ a[Len(a)] = "/" THEN a \o p
    ELSE a \o <<"/">> \o p

\* strip_all: one round of its for loop
strip_round(x) ==
    Strip(PyStrip(Strip(PyStrip(Strip(PyStrip(x), {STRIP_AFTER[1]})),
                        {STRIP_AFTER[2]})), {STRIP_AFTER[3]})

\* strip_all(x): rounds until nothing changes
RECURSIVE strip_all(_)
strip_until_same(old_name, x) == IF old_name = x THEN x ELSE strip_all(x)
strip_all(x) == IF x = <<>> THEN x ELSE strip_until_same(x, strip_round(x))

\* strip_folders raises IndexError: path.strip()[0] of a blank path
strip_folders_raises(path) == PyStrip(path) = <<>>

\* strip_folders: the list f
folders(path) ==
    (IF PyStrip(path)[1] \in {"/", "\\"} THEN << <<>> >> ELSE <<>>)
        \o Split(Strip(path, {"/"}), "/")

stripped_folders(f) == [i \in 1..Len(f) |-> strip_all(f[i])]

\* strip_folders(path), for a path that is not blank
strip_folders(path) == normpath(Join(stripped_folders(folders(path)), <<"/">>))

-----------------------------------------------------------------------------
(* The guess of the classifier: a dict from property names to values. A    *)
(* value is a string, a number, a date or None.                            *)

None == [none |-> TRUE]
Str(s) == [str |-> s]
Num(n) == [int |-> n]
Date(y, m, d) == [year |-> y, month |-> m, day |-> d]

\* guess.get(key, default); guess.get(key) is get(guess, key, None)
get(guess, key, default) ==
    IF key \in DOMAIN guess THEN guess[key] ELSE default

\* the truth value of v
truth(v) ==
    IF "none" \in DOMAIN v THEN FALSE
    ELSE IF "int" \in DOMAIN v THEN v.int # 0
    ELSE IF "str" \in DOMAIN v THEN v.str # <<>>
    ELSE TRUE

\* str(v) of a string, a number or None
PyStr(v) ==
    IF "str" \in DOMAIN v THEN v.str
    ELSE IF "int" \in DOMAIN v THEN PyStrNat(v.int)
    ELSE <<"N","o","n","e">>

\* guess_hacks(filename, guess): the guess it leaves
guess_hacks(filename, guess) ==
    IF /\ get(guess, "type", None) = Str(<<"e","p","i","s","o","d","e">>)
       /\ ~truth(get(guess, "episodeNumber", None))
    THEN [k \in DOMAIN guess \cup {"type", "title", "year"} |->
             IF k = "type" THEN Str(<<"m","o","v","i","e">>)
             ELSE IF k = "title" THEN get(guess, "series", None)
             ELSE IF k = "year" THEN Str(<<"1","9","0","0">>)
             ELSE guess[k]]
    ELSE guess

-----------------------------------------------------------------------------
(* The mappings: lists of pairs (specifier, value), in the order of the    *)
(* appends                                                                 *)

download_dir == <<"d">>
movies_dir == <<"M">>
series_dir == <<"S">>
dated_dir == <<"D">>

\* add_common_mapping(old_filename, guess, mapping): what it appends
add_common_mapping(old_filename, guess) ==
    << <<<<"%","d","n">>, BaseName(download_dir)>>,
       <<<<"%","f","n">>, SplitExt(BaseName(BaseName(old_filename)))[1]>>,
       <<<<"%","e","x","t">>, SplitExt(BaseName(BaseName(old_filename)))[2]>>,
       <<<<"%","E","X","T">>, PyUpper(SplitExt(BaseName(BaseName(old_filename)))[2])>>,
       <<<<"%","E","x","t">>, PyTitle(SplitExt(BaseName(BaseName(old_filename)))[2])>>,
       <<<<"%","q","f">>, get(guess, "format", Str(<<>>)).str>>,
       <<<<"%","q","s","s">>, get(guess, "screenSize", Str(<<>>)).str>>,
       <<<<"%","q","v","c">>, get(guess, "videoCodec", Str(<<>>)).str>>,
       <<<<"%","q","a","c">>, get(guess, "audioCodec", Str(<<>>)).str>>,
       <<<<"%","q","a","h">>, get(guess, "audioChannels", Str(<<>>)).str>>,
       <<<<"%","q","r","g">>, get(guess, "releaseGroup", Str(<<>>)).str>> >>

\* add_series_mapping: the show name
show_name_mapping(show_tnames, show_names) ==
    << <<<<"%","s","n">>, show_tnames[1]>>, <<<<"%","s",".","n">>, show_tnames[2]>>,
       <<<<"%","s","_","n">>, show_tnames[3]>>, <<<<"%","s","N">>, show_names[1]>>,
       <<<<"%","s",".","N">>, show_names[2]>>, <<<<"%","s","_","N">>, show_names[3]>> >>

\* add_series_mapping: season number, episode number
season_mapping(season_num) ==
    << <<<<"%","s">>, season_num>>, <<<<"%","0","s">>, RJust(season_num, 2, "0")>> >>
episode_mapping(episode_num) ==
    << <<<<"%","e">>, episode_num>>, <<<<"%","0","e">>, RJust(episode_num, 2, "0")>> >>

\* add_series_mapping: episode names
episode_name_mapping(ep_tnames, ep_names) ==
    << <<<<"%","e","n">>, ep_tnames[1]>>, <<<<"%","e",".","n">>, ep_tnames[2]>>,
       <<<<"%","e","_","n">>, ep_tnames[3]>>, <<<<"%","e","N">>, ep_names[1]>>,
       <<<<"%","e",".","N">>, ep_names[2]>>, <<<<"%","e","_","N">>, ep_names[3]>> >>

\* (mutant) the season number appended before the show name
add_series_mapping_season_first(guess) ==
    season_mapping(PyStr(get(guess, "season", Str(<<>>))))
    \o show_name_mapping(get_titles(get(guess, "series", Str(<<>>)).str, TRUE),
                         get_titles(get(guess, "series", Str(<<>>)).str, FALSE))
    \o (IF truth(get(guess, "title", None))
        THEN episode_name_mapping(get_titles(guess["title"].str, TRUE),
                                  get_titles(guess["title"].str, FALSE))
        ELSE episode_name_mapping(<< <<>>, <<>>, <<>> >>, << <<>>, <<>>, <<>> >>))
    \o episode_mapping(PyStr(get(guess, "episodeNumber", Str(<<>>))))

\* add_series_mapping(guess, mapping): what it appends
add_series_mapping(guess) ==
    show_name_mapping(get_titles(get(guess, "series", Str(<<>>)).str, TRUE),
                      get_titles(get(guess, "series", Str(<<>>)).str, FALSE))
    \o season_mapping(PyStr(get(guess, "season", Str(<<>>))))
    \o (IF truth(get(guess, "title", None))
        THEN episode_name_mapping(get_titles(guess["title"].str, TRUE),
                                  get_titles(guess["title"].str, FALSE))
        ELSE episode_name_mapping(<< <<>>, <<>>, <<>> >>, << <<>>, <<>>, <<>> >>))
    \o episode_mapping(PyStr(get(guess, "episodeNumber", Str(<<>>))))

\* add_movies_mapping, add_dated_mapping: the title
title_mapping(ttitles, titles) ==
    << <<<<"%","t","i","t","l","e">>, titles[1]>>, <<<<"%",".","t","i","t","l","e">>, titles[2]>>,
       <<<<"%","_","t","i","t","l","e">>, titles[3]>>,
       <<<<"%","t">>, titles[1]>>, <<<<"%",".","t">>, titles[2]>>, <<<<"%","_","t">>, titles[3]>>,
       <<<<"%","s","n">>, titles[1]>>, <<<<"%","s",".","n">>, titles[2]>>, <<<<"%","s","_","n">>, titles[3]>>,
       <<<<"%","s","N">>, ttitles[1]>>, <<<<"%","s",".","N">>, ttitles[2]>>,
       <<<<"%","s","_","N">>, ttitles[3]>> >>

\* the decades
decades_mapping(decades) ==
    << <<<<"%","d","e","c","a","d","e">>, decades[1]>>, <<<<"%","0","d","e","c","a","d","e">>, decades[2]>> >>

\* add_movies_mapping(guess, mapping): what it appends
add_movies_mapping(guess) ==
    title_mapping(get_titles(get(guess, "title", Str(<<>>)).str, TRUE),
                  get_titles(get(guess, "title", Str(<<>>)).str, TRUE))
    \o << <<<<"%","y">>, PyStr(get(guess, "year", Str(<<>>)))>> >>
    \o decades_mapping(get_decades(PyStr(get(guess, "year", Str(<<>>)))))

\* add_dated_mapping: description and date
date_mapping(date) ==
    << <<<<"%","d","e","s","c">>, <<>>>>, <<<<"%",".","d","e","s","c">>, <<>>>>, <<<<"%","_","d","e","s","c">>, <<>>>>,
       <<<<"%","y","e","a","r">>, PyStrNat(date.year)>>, <<<<"%","y">>, PyStrNat(date.year)>> >>
    \o decades_mapping(get_decades(PyStrNat(date.year)))
    \o << <<<<"%","m">>, PyStrNat(date.month)>>,
          <<<<"%","0","m">>, RJust(PyStrNat(date.month), 2, "0")>>,
          <<<<"%","d">>, PyStrNat(date.day)>>,
          <<<<"%","0","d">>, RJust(PyStrNat(date.day), 2, "0")>> >>

\* add_dated_mapping(guess, mapping): what it appends
add_dated_mapping(guess) ==
    title_mapping(get_titles(get(guess, "title", Str(<<>>)).str, TRUE),
                  get_titles(get(guess, "title", Str(<<>>)).str, TRUE))
    \o date_mapping(guess["date"])

-----------------------------------------------------------------------------
(* construct_path. Its locals are kept in a record: status is "path" (a    *)
(* path is returned), "none" (None is returned) or "raised".               *)

\* return None
no_path(type) ==
    [status |-> "none", type |-> type, dest_dir |-> <<>>, format |-> <<>>,
     mapping |-> <<>>, dupe_separator |-> dupe_separator, sorter |-> <<>>,
     subst |-> <<>>, cleaned |-> <<>>, cased |-> <<>>, path |-> <<>>,
     new_path |-> <<>>]

\* Add extension specifier if the format string doesn't end with it
format_with_ext(format) ==
    IF Slice(RStrip(format, {"}"}),
             IF Len(RStrip(format, {"}"})) > 5
             THEN Len(RStrip(format, {"}"})) - 4 ELSE 1,
             Len(RStrip(format, {"}"}))) # <<".","%","e","x","t">>
    THEN format \o <<".","%","e","x","t">>
    ELSE format

\* the locals once the branch is taken: guess_dupe_separator(format), the
\* format with its extension, sorter
locals(type, dest_dir, format, mapping) ==
    [status |-> "path", type |-> type, dest_dir |-> dest_dir,
     format |-> format_with_ext(format), mapping |-> mapping,
     dupe_separator |-> guess_dupe_separator(format),
     sorter |-> Replace(format_with_ext(format), <<"\\">>, <<"/">>),
     subst |-> <<>>, cleaned |-> <<>>, cased |-> <<>>, path |-> <<>>,
     new_path |-> <<>>]

\* Replace elements
replace_elements(l) == [l EXCEPT !.subst = path_subst(l.sorter, l.mapping)]

\* for key, name in REPLACE_AFTER.iteritems(): path = path.replace(key, name)
RECURSIVE replace_after(_, _)
replace_after(path, i) ==
    IF i > Len(replace_order) THEN path
    ELSE replace_after(Replace(path, replace_order[i][1],
                               replace_order[i][2]), i + 1)

\* while old_path != path
RECURSIVE replace_until_same(_, _)
replace_until_same(old_path, path) ==
    IF old_path = path THEN path
    ELSE replace_until_same(path, replace_after(path, 1))

\* Cleanup file name
cleanup_file_name(l) ==
    [l EXCEPT !.cleaned = replace_until_same(<<>>, l.subst)]

\* Uppercase all characters encased in {{}}, lowercase those encased in {}
change_case(l) ==
    [l EXCEPT !.cased = to_lowercase(to_uppercase(l.cleaned))]

\* Strip any extra strippable characters around foldernames and filename
strip_path(l) ==
    IF strip_folders_raises(SplitExt(l.cased)[1])
    THEN [l EXCEPT !.status = "raised"]
    ELSE [l EXCEPT !.path = normpath(strip_folders(SplitExt(l.cased)[1])
                                     \o SplitExt(l.cased)[2])]

\* new_path = os.path.join(dest_dir, path)
join_path(l) ==
    IF l.status = "path"
    THEN [l EXCEPT !.new_path = path_join(l.dest_dir, l.path)]
    ELSE l

\* construct_path from the call of guess_dupe_separator on
build_path(type, dest_dir, format, mapping) ==
    join_path(strip_path(change_case(cleanup_file_name(replace_elements(
        locals(type, dest_dir, format, mapping))))))

\* construct_path from the test of type on; type was read before guess_hacks
\* and guess is what guess_hacks left
path_by_type(filename, type, guess) ==
    IF type = Str(<<"m","o","v","i","e">>)
    THEN IF truth(get(guess, "date", None))
         THEN build_path(type, dated_dir, dated_format,
                  add_common_mapping(filename, guess)
                      \o add_dated_mapping(guess))
         ELSE build_path(type, movies_dir, movies_format,
                  add_common_mapping(filename, guess)
                      \o add_movies_mapping(guess))
    ELSE IF type = Str(<<"e","p","i","s","o","d","e">>)
    THEN build_path(type, series_dir, series_format,
             add_common_mapping(filename, guess) \o add_series_mapping(guess))
    ELSE no_path(type)

\* construct_path(filename), guess being what guessit makes of filename
construct_path(filename, guess) ==
    path_by_type(filename, get(guess, "type", None),
                 guess_hacks(filename, guess))

-----------------------------------------------------------------------------
(* The configurations and inputs of SpecPath and SpecTitles *)

\* names of at most this many characters are given to get_titles
MaxNameLen == 6

\* NZBPO_LOWERWORDS: empty, "a", "an", "a,an"
LowerWordLists == { <<<<>>>>, <<<<"a">>>>, <<<<"a","n">>>>, <<<<"a">>, <<"a","n">>>> }

\* NZBPO_UPPERWORDS: empty, "nn"
UpperWordLists == { <<<<>>>>, <<<<"n","n">>>> }

\* NZBPO_MOVIESFORMAT: "%t (%y)" (the default), "%tT (%y)", "%.t.{%qf}.%y"
MoviesFormats == { <<"%","t"," ","(","%","y",")">>, <<"%","t","T"," ","(","%","y",")">>, <<"%",".","t",".","{","%","q","f","}",".","%","y">> }

\* NZBPO_SERIESFORMAT: the default, "%s.n.S%0sE%0e"
SeriesFormats == { <<"%","s","n","/","S","e","a","s","o","n"," ","%","s","/","%","s","n"," ","-"," ","S","%","0","s","E","%","0","e"," ","-"," ","%","e","n">>, <<"%","s",".","n",".","S","%","0","s","E","%","0","e">> }

\* NZBPO_DATEDFORMAT: the default
DatedFormats == { <<"%","s","n","/","%","s","n"," ","-"," ","%","y","-","%","0","m","-","%","0","d">> }

\* the files construct_path is called for
Filenames == { <<"d","/","x",".","m","k","v">>, <<"d","/","y",".","z",".","M","P","4">> }

\* what guessit may report of a movie, of an episode
MovieProperties ==
    [type |-> Str(<<"m","o","v","i","e">>), title |-> Str(<<"a"," ","b">>), year |-> Num(2010),
     format |-> Str(<<"H","D">>), date |-> Date(2010, 1, 5)]
EpisodeProperties ==
    [type |-> Str(<<"e","p","i","s","o","d","e">>), series |-> Str(<<"c"," ","d">>), title |-> Str(<<"a"," ","b">>),
     season |-> Num(2), episodeNumber |-> Num(5), format |-> Str(<<"H","D">>)]

\* the guesses: a movie or an episode with any of its properties missing, an
\* episode numbered 0, a file of another type, a file of no type
PathGuesses ==
    { [k \in K \cup {"type"} |-> MovieProperties[k]] :
        K \in SUBSET {"title", "year", "format", "date"} }
    \cup
    { [k \in K \cup {"type"} |->
          IF k = "episodeNumber" THEN Num(n) ELSE EpisodeProperties[k]] :
        K \in SUBSET {"series", "title", "season", "episodeNumber", "format"},
        n \in {0, 5} }
    \cup { [type |-> Str(<<"u","n","k","n","o","w","n">>)], [format |-> Str(<<"H","D">>)] }

\* the names get_titles is called for: words of a and n
TitleNames == UNION { [1..n -> {"a", "n", " "}] : n \in 0..MaxNameLen }

-----------------------------------------------------------------------------
(* SpecPath: construct_path is called once *)

InitPath ==
    /\ RunAtRest
    /\ TitlesAtRest
    /\ lower_words \in { <<<<>>>>, <<<<"a">>>> }
    /\ upper_words = <<<<>>>>
    /\ movies_format \in MoviesFormats
    /\ series_format \in SeriesFormats
    /\ dated_format \in DatedFormats
    /\ replace_order \in ReplaceOrders
    /\ arg_filename \in Filenames
    /\ arg_guess \in PathGuesses
    /\ ret_path = NotCalled

ConstructPath ==
    /\ ret_path.status = "pending"
    /\ ret_path' = construct_path(arg_filename, arg_guess)
    /\ UNCHANGED <<run_vars, config_vars, titles_vars, arg_filename, arg_guess>>

NextPath == ConstructPath

SpecPath == InitPath /\ [][NextPath]_vars

-----------------------------------------------------------------------------
(* SpecTitles: get_titles is called once *)

InitTitles ==
    /\ RunAtRest
    /\ PathAtRest
    /\ lower_words \in LowerWordLists
    /\ upper_words \in UpperWordLists
    /\ movies_format = <<>> /\ series_format = <<>> /\ dated_format = <<>>
    /\ replace_order = <<>>
    /\ arg_name \in TitleNames
    /\ arg_titleing \in BOOLEAN
    /\ ret_titles = NotCalled

\* the tuple get_titles returns
returned(t) ==
    [status |-> "returned", title |-> t[1], dots |-> t[2],
     underscores |-> t[3]]

GetTitles ==
    /\ ret_titles.status = "pending"
    /\ ret_titles' = returned(get_titles(arg_name, arg_titleing))
    /\ UNCHANGED <<run_vars, config_vars, path_vars, arg_name, arg_titleing>>

NextTitles == GetTitles

SpecTitles == InitTitles /\ [][NextTitles]_vars

-----------------------------------------------------------------------------
(* Claims about construct_path *)

\* construct_path has been called for an item the classifier reports as an
\* episode of a series, without an episode number
EpisodeWithoutNumber ==
    /\ ret_path.status # "pending"
    /\ get(arg_guess, "type", None) = Str(<<"e","p","i","s","o","d","e">>)
    /\ ~truth(get(arg_guess, "episodeNumber", None))
    /\ "series" \in DOMAIN arg_guess

\* mapping has the entry (key, value)
HasEntry(mapping, key, value) ==
    \E k \in 1..Len(mapping) : mapping[k] = <<key, value>>

\* C7: when the classifier reports type 'episode' and no episode number,
\* construct_path treats the item as a movie: it takes the movies
\* destination root and the movies format, and the movie mapping in which
\* the title is the guess's series name and the year is '1900'.
C7_EpisodeWithoutNumberIsAMovie ==
    EpisodeWithoutNumber =>
        /\ ret_path.dest_dir = movies_dir
        /\ ret_path.format = format_with_ext(movies_format)
        /\ ret_path.mapping =
               add_common_mapping(arg_filename,
                                  guess_hacks(arg_filename, arg_guess))
               \o add_movies_mapping(guess_hacks(arg_filename, arg_guess))
        /\ HasEntry(ret_path.mapping, <<"%","t">>,
                    get_titles(arg_guess["series"].str, TRUE)[1])
        /\ HasEntry(ret_path.mapping, <<"%","y">>, <<"1","9","0","0">>)

\* construct_path has built the mapping of a movie
MovieMapped ==
    /\ ret_path.status \in {"path", "raised"}
    /\ ret_path.type = Str(<<"m","o","v","i","e">>)
    /\ ~truth(get(arg_guess, "date", None))

\* the title of the guess, '' when it has none
MovieTitle == get(arg_guess, "title", Str(<<>>)).str

\* C8: for a movie, %tT, %t.T and %t_T expand to the title in its original
\* letter case, with spaces, dots and underscores between the words, and
\* %t, %.t and %_t expand to the case-adjusted title.
C8_MovieTitleSpecifiers ==
    MovieMapped =>
        /\ path_subst(<<"%","t","T">>, ret_path.mapping)
               = get_titles(MovieTitle, FALSE)[1]
        /\ path_subst(<<"%","t",".","T">>, ret_path.mapping)
               = get_titles(MovieTitle, FALSE)[2]
        /\ path_subst(<<"%","t","_","T">>, ret_path.mapping)
               = get_titles(MovieTitle, FALSE)[3]
        /\ path_subst(<<"%","t">>, ret_path.mapping)
               = get_titles(MovieTitle, TRUE)[1]
        /\ path_subst(<<"%",".","t">>, ret_path.mapping)
               = get_titles(MovieTitle, TRUE)[2]
        /\ path_subst(<<"%","_","t">>, ret_path.mapping)
               = get_titles(MovieTitle, TRUE)[3]

\* the characters no path segment may begin or end with
StripCharacters == {"_", ".", "-", " "}

\* the doubled separators
DoubledSeparators == { <<".",".">>, <<"_","_">>, <<" "," ">>, <<"/","/">> }

\* p holds no specifier of mapping, no doubled separator, and no segment
\* that begins or ends with a strip character
CleanPath(p, mapping) ==
    /\ \A k \in 1..Len(mapping) : ~Contains(p, mapping[k][1])
    /\ \A d \in DoubledSeparators : ~Contains(p, d)
    /\ \A i \in 1..Len(Split(p, "/")) :
           Split(p, "/")[i] # <<>> =>
               /\ Split(p, "/")[i][1] \notin StripCharacters
               /\ Split(p, "/")[i][Len(Split(p, "/")[i])]
                      \notin StripCharacters

\* C10: for every format and every guess, the path construct_path joins
\* onto the destination root has no specifier of the mapping left, no
\* doubled separator ('..', '__', two spaces, '//') and no segment that
\* begins or ends with '_', '.', '-' or a space; nor has the path that
\* strip_folders returns.
C10_PathIsClean ==
    ret_path.status = "path" =>
        /\ CleanPath(ret_path.path, ret_path.mapping)
        /\ CleanPath(strip_folders(SplitExt(ret_path.cased)[1]),
                     ret_path.mapping)

-----------------------------------------------------------------------------
(* Claims about get_titles *)

\* the name cleaned up and titled, before the word exceptions are applied
TitledName == Replace(titler(clean_title(arg_name)), <<"'","S">>, <<"'","s">>)

\* the word w is in s at i, as a whole word, letter case ignored
WholeWordAt(s, w, i) ==
    /\ w # <<>>
    /\ StartsWithNoCase(s, w, i)
    /\ i = 1 \/ ~IsWordChar(s[i - 1])
    /\ i + Len(w) > Len(s) \/ ~IsWordChar(s[i + Len(w)])

\* position p of s is in a whole-word occurrence of an exception word
InExceptionWord(s, p) ==
    \E words \in {lower_words, upper_words} :
       \E k \in 1..Len(words) :
          \E i \in 1..p :
             /\ p < i + Len(words[k])
             /\ WholeWordAt(s, words[k], i)

\* C9: get_titles(name, True) changes the titled name only in whole-word
\* occurrences of the words of lower_words and upper_words (the letters of
\* a longer word that contains such a word keep their titled case), and the
\* first character of the title is uppercase.
C9_OnlyWholeWordsChange ==
    (ret_titles.status = "returned" /\ arg_titleing) =>
        /\ Len(ret_titles.title) = Len(TitledName)
        /\ \A p \in 1..Len(ret_titles.title) :
               ret_titles.title[p] # TitledName[p]
                   => InExceptionWord(TitledName, p)
        /\ ret_titles.title # <<>> => IsUpper(ret_titles.title[1])

-----------------------------------------------------------------------------
(* More claims about construct_path *)

\* construct_path has built a mapping
MappingBuilt == ret_path.status \in {"path", "raised"}

\* the specifiers with a dot or an underscore put after the first letter of
\* the name, and the name itself: %sn gives %sn, %s.n, %s_n
Variants(c, d) ==
    { <<"%", c, d>>, <<"%", c, ".", d>>, <<"%", c, "_", d>> }

\* the property of the guess a specifier of the mapping is filled from, ""
\* for a specifier that is filled from the file or directory name; category
\* is the type construct_path branched on
AttributeOf(category, key) ==
    IF key = <<"%","q","f">> THEN "format"
    ELSE IF key = <<"%","q","s","s">> THEN "screenSize"
    ELSE IF key = <<"%","q","v","c">> THEN "videoCodec"
    ELSE IF key = <<"%","q","a","c">> THEN "audioCodec"
    ELSE IF key = <<"%","q","a","h">> THEN "audioChannels"
    ELSE IF key = <<"%","q","r","g">> THEN "releaseGroup"
    ELSE IF category = Str(<<"e","p","i","s","o","d","e">>)
    THEN IF key \in Variants("s", "n") \cup Variants("s", "N") THEN "series"
         ELSE IF key \in {<<"%","s">>, <<"%","0","s">>} THEN "season"
         ELSE IF key \in Variants("e", "n") \cup Variants("e", "N")
         THEN "title"
         ELSE IF key \in {<<"%","e">>, <<"%","0","e">>} THEN "episodeNumber"
         ELSE ""
    ELSE IF key \in Variants("s", "n") \cup Variants("s", "N")
                    \cup {<<"%","t","i","t","l","e">>, <<"%",".","t","i","t","l","e">>, <<"%","_","t","i","t","l","e">>,
                          <<"%","t">>, <<"%",".","t">>, <<"%","_","t">>}
         THEN "title"
         ELSE IF key \in {<<"%","y">>, <<"%","y","e","a","r">>, <<"%","d","e","c","a","d","e">>, <<"%","0","d","e","c","a","d","e">>}
         THEN IF "date" \in DOMAIN arg_guess THEN "date" ELSE "year"
         ELSE IF key \in {<<"%","m">>, <<"%","0","m">>, <<"%","d">>, <<"%","0","d">>} THEN "date"
         ELSE ""

\* C11: every specifier of the mapping whose property is absent from the
\* guess expands to the empty string, the zero-padded %0s and %0e, the year
\* and decades, the episode names and the video and audio descriptors
\* included.
C11_AbsentIsEmpty ==
    MappingBuilt =>
        \A k \in 1..Len(ret_path.mapping) :
            (/\ AttributeOf(ret_path.type, ret_path.mapping[k][1]) # ""
             /\ AttributeOf(ret_path.type, ret_path.mapping[k][1])
                    \notin DOMAIN arg_guess)
            => ret_path.mapping[k][2] = <<>>

-----------------------------------------------------------------------------
(* More claims about the run *)

\* what the first i calls of rename have appended to the moved lists, as
\* pairs (source, destination): a call that raised nothing, a call that
\* returned its pair, twice when it went through unique_name and the inner
\* call of rename
RECURSIVE AppendedBy(_, _)
AppendedBy(cs, i) ==
    IF i = 0 THEN <<>>
    ELSE AppendedBy(cs, i - 1)
         \o (IF cs[i].raised THEN <<>>
             ELSE IF cs[i].ret # cs[i].new
             THEN << <<cs[i].old, cs[i].ret>>, <<cs[i].old, cs[i].ret>> >>
             ELSE << <<cs[i].old, cs[i].ret>> >>)

\* the moved lists as one list of pairs
MovedPairs ==
    [k \in 1..Len(moved_src_files) |->
        <<moved_src_files[k], moved_dst_files[k]>>]

\* the call got as far as its move: it has deleted the file at the
\* destination, or put the file there
MoveReached(c) == c.deleted # {} \/ c.placed # {}

\* C12 as stated: the pair of a file is appended to the moved lists before
\* the file is moved, so whenever a call of rename has performed its move, or
\* the move has failed part-way, the pair is in the moved lists.
C12_Original ==
    \A i \in 1..Len(calls) :
        MoveReached(calls[i]) =>
            \E k \in 1..Len(moved_src_files) :
                /\ moved_src_files[k] = calls[i].old
                /\ moved_dst_files[k] = (IF calls[i].raised THEN calls[i].new
                                         ELSE calls[i].ret)

\* C12: rename appends the pair of a file to the moved lists after the move
\* (after the skipped move in preview mode): the moved lists hold the pairs
\* of the calls that returned, in the order of the calls, and nothing of a
\* call whose os.remove or shutil.move raised.
C12_RecordedAfterMove ==
    /\ Len(moved_src_files) = Len(moved_dst_files)
    /\ MovedPairs = AppendedBy(calls, Len(calls))

\* one call has moved its file and is recorded; another has deleted the file
\* at its destination, then its move raised, and it is not recorded
C12_Witness ==
    /\ \E i \in 1..Len(calls) :
           /\ ~calls[i].raised /\ calls[i].placed # {}
           /\ \E k \in 1..Len(moved_src_files) :
                  moved_src_files[k] = calls[i].old
    /\ \E j \in 1..Len(calls) :
           /\ calls[j].raised /\ calls[j].deleted # {}
           /\ \A k \in 1..Len(moved_src_files) :
                  moved_src_files[k] # calls[j].old

\* a is a proper prefix of b
ProperPrefix(a, b) == Len(a) < Len(b) /\ StartsWith(b, a, 1)

\* C13: in the mapping construct_path builds (common and movie, common and
\* series, common and dated), a specifier that has another specifier as a
\* proper prefix comes before it; so path_subst, which takes the first entry
\* that matches at a '%', takes the longest that matches there: in the
\* format, and for every specifier of the mapping written on its own.
C13_LongestSpecifierFirst ==
    MappingBuilt =>
        /\ \A i \in 1..Len(ret_path.mapping) :
           \A j \in 1..Len(ret_path.mapping) :
               ProperPrefix(ret_path.mapping[i][1], ret_path.mapping[j][1])
                   => j < i
        /\ \A n \in 1..Len(ret_path.sorter) :
           \A j \in 1..Len(ret_path.mapping) :
               (/\ ret_path.sorter[n] = "%"
                /\ StartsWith(ret_path.sorter, ret_path.mapping[j][1], n))
               => Len(ret_path.mapping[j][1]) <=
                      Len(ret_path.mapping[
                          first_key(ret_path.sorter, ret_path.mapping, n)][1])
        /\ \A j \in 1..Len(ret_path.mapping) :
               ret_path.mapping[first_key(ret_path.mapping[j][1],
                                          ret_path.mapping, 1)][1]
                   = ret_path.mapping[j][1]

\* a path has been built for an episode from a format with %sn or %s.n,
\* where the shorter %s matches too, and the show name stands in the path
C13_Witness ==
    /\ ret_path.status = "path"
    /\ ret_path.type = Str(<<"e","p","i","s","o","d","e">>)
    /\ "series" \in DOMAIN arg_guess
    /\ \E n \in 1..Len(ret_path.sorter) :
       \E k \in 1..Len(ret_path.mapping) :
           /\ ret_path.mapping[k][1] \in {<<"%","s","n">>, <<"%","s",".","n">>}
           /\ first_key(ret_path.sorter, ret_path.mapping, n) = k
           /\ HasEntry(ret_path.mapping, <<"%","s">>,
                       PyStr(get(arg_guess, "season", Str(<<>>))))
           /\ Contains(ret_path.subst, ret_path.mapping[k][2])
           /\ ret_path.mapping[k][2] # <<>>

=============================================================================
